---- MODULE Spec2Model ----
(***************************************************************************)
(* Model of the channel-integration session layer of connectverse-back:    *)
(* the WhatsApp connection manager (src/services/whatsapp.ts), the         *)
(* inbound ingestion pipelines of the paired channel (messages.upsert      *)
(* handler) and of the webhook channel (processMessagingEvent), the        *)
(* signature validation in front of the webhook route (middleware) and the *)
(* send route of a conversation (routes/conversations.ts).                 *)
(***************************************************************************)
EXTENDS Integers, Sequences, FiniteSets, TLC

VARIABLES
    sessions,      \* the registry Map<integrationId, WhatsAppSession>: id -> object, 0 = absent
    heap,          \* the WhatsAppSession objects ever constructed (closures keep them alive)
    nextObj,       \* number of WhatsAppSession objects constructed so far
    timers,        \* per object, the delays of the setTimeout callbacks not fired yet
    authDir,       \* Credential Store: does auth_sessions/<id> exist
    integration,   \* durable Integration rows: status and whatsappPhoneNumber
    drops,         \* history: consecutive transient drops of an object since it last opened
    torn,          \* history: ids torn down by disconnectSession and not started since
    scenario,      \* history: progress of integration I1 through the reconnect scenario
    contacts,      \* Contact rows, in creation order (row id = index)
    conversations, \* Conversation rows
    messages,      \* Message rows
    deals,         \* Deal rows
    deliveries,    \* inbound events being ingested: one record per handler invocation
    requests,      \* POST /webhooks/messenger requests and how far each got
    messenger,     \* durable status of the tenant's messenger Integration
    outbox,        \* history: one record per POST /:conversationId/messages call
    calls,         \* startSession / disconnectSession calls suspended at an await
    batch          \* the notification or webhook POST whose events are being looped over

sessionVars == <<sessions, heap, nextObj, timers, authDir, integration>>
historyVars == <<drops, torn, scenario>>
storeVars == <<contacts, conversations, messages, deals>>
ingestVars == <<contacts, conversations, messages, deals, deliveries>>
webVars == <<requests>>
\* what a connection-manager step leaves alone, and what an ingestion step does
outVars == <<messenger, outbox>>
callVars == <<calls>>
batchVars == <<batch>>
nonSessionVars == <<ingestVars, webVars, outVars, callVars, batchVars>>
nonIngestVars == <<sessionVars, historyVars, webVars, outVars, callVars, batchVars>>
nonWebVars == <<sessionVars, historyVars, outVars, callVars, batchVars>>
vars == <<sessions, heap, nextObj, timers, authDir, integration,
          drops, torn, scenario,
          contacts, conversations, messages, deals, deliveries,
          requests, messenger, outbox, calls, batch>>

----------------------------------------------------------------------------
(* Bounds *)

MaxDeliveries == 2               \* inbound events delivered in one run
MaxObj == 2                      \* WhatsAppSession objects constructed in one run

(* Program constants *)

MAX_RETRIES == 5
BackoffBase == 1000
BackoffCap == 30000

IntegrationIds == {"I1"}
Objs == 1..MaxObj
NoSession == 0

SocketStates == {"null", "connecting", "open", "ended", "closed"}
Statuses == {"connecting", "connected", "disconnected"}

Min(a, b) == IF a < b THEN a ELSE b

Deliveries == 1..MaxDeliveries
Tenants == {"T1", "T2"}
Channels == {"whatsapp", "messenger"}
ExternalIds == {"123"}
MessageIds == {"m1", "m2"}
Texts == {"hi", ""}

\* A normalized inbound event.  The paired channel takes customerId and
\* integrationId from the session of the socket; the webhook channel takes
\* customerId from the Integration of the page and has no integrationId.
Events ==
    {e \in [customerId : Tenants, channel : Channels, externalId : ExternalIds,
            mid : MessageIds, text : Texts, integrationId : {"I1", "null"}] :
        (e.channel = "whatsapp") <=> (e.integrationId = "I1")}

NoEvent == [customerId |-> "none", channel |-> "none", externalId |-> "none",
            mid |-> "none", text |-> "", integrationId |-> "null"]

Idle == [pc |-> "idle", ev |-> NoEvent, contact |-> 0, conversation |-> 0,
         isNewContact |-> FALSE]

(* Webhook requests *)

MaxRequests == 1                 \* POST /webhooks/messenger requests in one run
DigestLen == 3                   \* length of every digest: key mark and padded content

Requests == 1..MaxRequests
Bytes == {"1", "2", " "}
\* raw request bodies: two payloads of equal length, and the first one again
\* with insignificant whitespace
Bodies == {<<"1">>, <<"2">>, <<"1", " ">>}
AppSecret == "K"
Keys == {AppSecret, "X"}

\* JSON.parse followed by JSON.stringify: insignificant whitespace is gone
parse(bytes) == SelectSeq(bytes, LAMBDA c : c # " ")

\* createHmac('sha256', key).update(bytes).digest('hex') as an ideal keyed
\* hash: fixed length, and distinct (key, bytes) give distinct digests
hmacHex(key, bytes) ==
    <<key>> \o bytes \o [i \in 1..(DigestLen - 1 - Len(bytes)) |-> "0"]

SignaturePrefix == <<"sha256=">>

\* values of the x-hub-signature-256 header; << >> is a missing header
Signatures ==
    {<< >>}
    \cup {SignaturePrefix \o hmacHex(k, b) : k \in Keys, b \in Bodies}
    \cup {hmacHex(AppSecret, b) : b \in Bodies}

NoRequest ==
    [stage |-> "none", secret |-> FALSE, json |-> FALSE, body |-> << >>,
     signature |-> << >>, rawBody |-> << >>, parsed |-> FALSE,
     response |-> 0, delivery |-> 0]


(* Calls of the connection manager that run one await at a time *)

\* no batch has been received
NoBatch == [channel |-> "none", events |-> << >>, aborted |-> FALSE]

MaxCalls == 3                    \* startSession / disconnectSession calls in one run

Calls == 1..MaxCalls
NoCall == [op |-> "none", pc |-> "idle", id |-> "none", obj |-> NoSession]

----------------------------------------------------------------------------
(* Session objects *)

NewSession(id) ==
    [integrationId |-> id, socket |-> "null", qrCode |-> FALSE,
     status |-> "connecting", retryCount |-> 0]

Unallocated ==
    [integrationId |-> "none", socket |-> "null", qrCode |-> FALSE,
     status |-> "connecting", retryCount |-> 0]

\* a socket that can still carry traffic and events
LiveSocket(o) == heap[o].socket \in {"connecting", "open"}

\* no session has been started
SessionInit ==
    /\ sessions = [id \in IntegrationIds |-> NoSession]
    /\ heap = [o \in Objs |-> Unallocated]
    /\ nextObj = 0
    /\ timers = [o \in Objs |-> << >>]
    /\ authDir = [id \in IntegrationIds |-> FALSE]
    /\ integration = [id \in IntegrationIds |->
                        [status |-> "disconnected", whatsappPhoneNumber |-> "null"]]
    /\ drops = [o \in Objs |-> 0]
    /\ torn = {}
    /\ scenario = 0
    /\ calls = [c \in Calls |-> NoCall]
    /\ batch = NoBatch

Init ==
    /\ SessionInit
    /\ contacts = << >>
    /\ conversations = << >>
    /\ messages = << >>
    /\ deals = << >>
    /\ deliveries = [p \in Deliveries |-> Idle]
    /\ requests = [r \in Requests |-> NoRequest]
    /\ messenger = "disconnected"
    /\ outbox = << >>
----------------------------------------------------------------------------
(* History bookkeeping (observers only: no action reads them) *)

\* Integration I1 walking through: start, pairing artifact, open, transient
\* drop, reconnect timer, open.  Any other event on I1 restarts the walk.
ScenarioEvents == <<"start", "qr", "open", "drop", "timer", "open">>

ScenarioStep(ev, id) ==
    IF id # "I1" THEN scenario
    ELSE IF scenario < Len(ScenarioEvents) /\ ScenarioEvents[scenario + 1] = ev
         THEN scenario + 1
         ELSE IF ev = "start" THEN 1 ELSE 0

----------------------------------------------------------------------------
(* Connection manager: helpers, one per statement of the source *)

\* variant: the transport is left open
endSocket_skipped(h, o) == h

\* session.socket.end(undefined) when the session exists and holds a socket
endSocket(h, o) ==
    IF o # NoSession /\ h[o].socket \in {"connecting", "open"}
    THEN [h EXCEPT ![o].socket = "ended"]
    ELSE h

\* rmSync(authPath) when it exists
rmAuth(id) == [authDir EXCEPT ![id] = FALSE]

\* mkdirSync(authPath, {recursive: true}); useMultiFileAuthState creates it too
mkAuth(a, id) == [a EXCEPT ![id] = TRUE]

\* variant: returns early, before the update, when no session is registered
writeDisconnectedCleared_ifSession(id) ==
    IF sessions[id] = NoSession THEN integration
    ELSE [integration EXCEPT ![id] =
            [status |-> "disconnected", whatsappPhoneNumber |-> "null"]]

\* prisma.integration.update({status: 'disconnected', whatsappPhoneNumber: null})
writeDisconnectedCleared(id) ==
    [integration EXCEPT ![id] =
        [status |-> "disconnected", whatsappPhoneNumber |-> "null"]]

\* prisma.integration.update({status: 'disconnected'})
writeDisconnected(id) == [integration EXCEPT ![id].status = "disconnected"]

\* variant: the open handler updates the session only
writeConnected_skipped(id, phone) == integration

\* prisma.integration.update({status: 'connected', whatsappPhoneNumber})
writeConnected(id, phone) ==
    [integration EXCEPT ![id] =
        [status |-> "connected", whatsappPhoneNumber |-> phone]]

\* variant: every close is treated as transient
shouldReconnect_always(loggedOut) == TRUE

\* statusCode !== DisconnectReason.loggedOut
shouldReconnect(loggedOut) == ~loggedOut

\* variant: off by one in the retry limit
canRetry_inclusive(retryCount) == retryCount <= MAX_RETRIES

\* session.retryCount < MAX_RETRIES
canRetry(retryCount) == retryCount < MAX_RETRIES

\* Math.min(1000 * Math.pow(2, session.retryCount), 30000), read after retryCount++
reconnectDelay(retryCount) == Min(BackoffBase * (2 ^ retryCount), BackoffCap)

\* makeWASocket(...); session.socket = socket
connectSocket(h, o) == [h EXCEPT ![o].socket = "connecting"]

----------------------------------------------------------------------------
(* Connection manager: operations *)

disconnectSession(id) ==
    /\ UNCHANGED nonSessionVars
    /\ heap' = endSocket(heap, sessions[id])
    /\ authDir' = rmAuth(id)
    /\ sessions' = [sessions EXCEPT ![id] = NoSession]
    /\ integration' = writeDisconnectedCleared(id)
    /\ UNCHANGED <<nextObj, timers>>
    /\ torn' = torn \cup {id}
    /\ scenario' = ScenarioStep("disconnect", id)
    /\ UNCHANGED drops

startSession(id) ==
    /\ UNCHANGED nonSessionVars
    /\ nextObj < MaxObj
    /\ LET o == nextObj + 1
           had == sessions[id] # NoSession
           h1 == IF had THEN endSocket(heap, sessions[id]) ELSE heap
           a1 == IF had THEN rmAuth(id) ELSE authDir
       IN  /\ heap' = connectSocket([h1 EXCEPT ![o] = NewSession(id)], o)
           /\ authDir' = mkAuth(a1, id)
           /\ sessions' = [sessions EXCEPT ![id] = o]
           /\ integration' = IF had THEN writeDisconnectedCleared(id) ELSE integration
           /\ nextObj' = o
    /\ UNCHANGED timers
    /\ torn' = torn \ {id}
    /\ scenario' = ScenarioStep("start", id)
    /\ UNCHANGED drops

\* variant: the qr branch writes the pairing state through to the row
qrUpdate_writeThrough(o, ok) ==
    /\ UNCHANGED nonSessionVars
    /\ heap[o].socket = "connecting"
    /\ heap' = IF ok THEN [heap EXCEPT ![o].qrCode = TRUE, ![o].status = "connecting"]
               ELSE heap
    /\ integration' = IF ok THEN writeDisconnected(heap[o].integrationId) ELSE integration
    /\ UNCHANGED <<sessions, nextObj, timers, authDir>>
    /\ scenario' = ScenarioStep(IF ok THEN "qr" ELSE "qrfail", heap[o].integrationId)
    /\ UNCHANGED <<drops, torn>>

\* connection.update carrying a qr payload; QRCode.toDataURL may throw
qrUpdate(o, ok) ==
    /\ UNCHANGED nonSessionVars
    /\ heap[o].socket = "connecting"
    /\ heap' = IF ok THEN [heap EXCEPT ![o].qrCode = TRUE, ![o].status = "connecting"]
               ELSE heap
    /\ UNCHANGED <<sessions, nextObj, timers, authDir, integration>>
    /\ scenario' = ScenarioStep(IF ok THEN "qr" ELSE "qrfail", heap[o].integrationId)
    /\ UNCHANGED <<drops, torn>>

\* variant: the open handler leaves retryCount as it is
openUpdate_noReset(o, phone) ==
    /\ UNCHANGED nonSessionVars
    /\ heap[o].socket = "connecting"
    /\ heap' = [heap EXCEPT ![o].socket = "open", ![o].status = "connected",
                            ![o].qrCode = FALSE]
    /\ integration' = writeConnected(heap[o].integrationId, phone)
    /\ UNCHANGED <<sessions, nextObj, timers, authDir>>
    /\ drops' = [drops EXCEPT ![o] = 0]
    /\ scenario' = ScenarioStep("open", heap[o].integrationId)
    /\ UNCHANGED torn

\* connection.update with connection === 'open'
openUpdate(o, phone) ==
    /\ UNCHANGED nonSessionVars
    /\ heap[o].socket = "connecting"
    /\ heap' = [heap EXCEPT ![o].socket = "open", ![o].status = "connected",
                            ![o].qrCode = FALSE, ![o].retryCount = 0]
    /\ integration' = writeConnected(heap[o].integrationId, phone)
    /\ UNCHANGED <<sessions, nextObj, timers, authDir>>
    /\ drops' = [drops EXCEPT ![o] = 0]
    /\ scenario' = ScenarioStep("open", heap[o].integrationId)
    /\ UNCHANGED torn

\* connection.update with connection === 'close'.  A socket ended by
\* socket.end(undefined) reports its close without an error (not logged out).
closeUpdate(o, loggedOut) ==
    /\ UNCHANGED nonSessionVars
    /\ heap[o].socket \in {"connecting", "open", "ended"}
    /\ heap[o].socket = "ended" => ~loggedOut
    /\ LET id == heap[o].integrationId
           retry == shouldReconnect(loggedOut) /\ canRetry(heap[o].retryCount)
           rc == heap[o].retryCount + 1
       IN  /\ IF retry
              THEN /\ heap' = [heap EXCEPT ![o].socket = "closed", ![o].retryCount = rc]
                   /\ timers' = [timers EXCEPT ![o] = Append(@, reconnectDelay(rc))]
                   /\ UNCHANGED <<integration, authDir>>
              ELSE /\ heap' = [heap EXCEPT ![o].socket = "null", ![o].qrCode = FALSE,
                                           ![o].status = "disconnected"]
                   /\ integration' = writeDisconnected(id)
                   /\ authDir' = IF loggedOut THEN rmAuth(id) ELSE authDir
                   /\ UNCHANGED timers
           /\ drops' = [drops EXCEPT ![o] = IF loggedOut THEN @ ELSE @ + 1]
           /\ scenario' = ScenarioStep(IF retry THEN "drop" ELSE "fail", id)
    /\ UNCHANGED <<sessions, nextObj, torn>>

\* the setTimeout callback: connectSocket(session, prisma)
reconnectTimer(o) ==
    /\ UNCHANGED nonSessionVars
    /\ timers[o] # << >>
    /\ timers' = [timers EXCEPT ![o] = Tail(@)]
    /\ heap' = connectSocket(heap, o)
    /\ authDir' = mkAuth(authDir, heap[o].integrationId)
    /\ UNCHANGED <<sessions, nextObj, integration>>
    /\ scenario' = ScenarioStep("timer", heap[o].integrationId)
    /\ UNCHANGED <<drops, torn>>

disconnectAllSessions ==
    /\ UNCHANGED nonSessionVars
    /\ \E id \in IntegrationIds : sessions[id] # NoSession
    /\ heap' = [o \in Objs |->
                  IF (\E id \in IntegrationIds : sessions[id] = o)
                     /\ heap[o].socket \in {"connecting", "open"}
                  THEN [heap[o] EXCEPT !.socket = "ended"]
                  ELSE heap[o]]
    /\ sessions' = [id \in IntegrationIds |-> NoSession]
    /\ UNCHANGED <<nextObj, timers, authDir, integration>>
    /\ scenario' = 0
    /\ UNCHANGED <<drops, torn>>

\* socket.user.id.split(':')[0], the number of the paired account
Phones == {"P1"}

Next ==
    \/ \E id \in IntegrationIds : startSession(id)
    \/ \E id \in IntegrationIds : disconnectSession(id)
    \/ \E o \in Objs, ok \in BOOLEAN : qrUpdate(o, ok)
    \/ \E o \in Objs, phone \in Phones : openUpdate(o, phone)
    \/ \E o \in Objs, loggedOut \in BOOLEAN : closeUpdate(o, loggedOut)
    \/ \E o \in Objs : reconnectTimer(o)
    \/ disconnectAllSessions

\* the connection manager on its own: no session has been started, and no
\* inbound event, webhook request or stepwise call is ever in flight, so
\* there is no slot for one
ManagerInit ==
    /\ sessions = [id \in IntegrationIds |-> NoSession]
    /\ heap = [o \in Objs |-> Unallocated]
    /\ nextObj = 0
    /\ timers = [o \in Objs |-> << >>]
    /\ authDir = [id \in IntegrationIds |-> FALSE]
    /\ integration = [id \in IntegrationIds |->
                        [status |-> "disconnected", whatsappPhoneNumber |-> "null"]]
    /\ drops = [o \in Objs |-> 0]
    /\ torn = {}
    /\ scenario = 0
    /\ calls = << >>
    /\ batch = NoBatch
    /\ contacts = << >>
    /\ conversations = << >>
    /\ messages = << >>
    /\ deals = << >>
    /\ deliveries = << >>
    /\ requests = << >>
    /\ messenger = "disconnected"
    /\ outbox = << >>

Spec == ManagerInit /\ [][Next]_vars

----------------------------------------------------------------------------
(* startSession and disconnectSession one await at a time: each action is  *)
(* the code between two suspension points of one call                      *)

\* the synchronous part of disconnectSession: end, rmSync, sessions.delete
teardown(id) ==
    /\ heap' = endSocket(heap, sessions[id])
    /\ authDir' = rmAuth(id)
    /\ sessions' = [sessions EXCEPT ![id] = NoSession]

\* mkdirSync, the session literal and sessions.set of startSession
register(c, id) ==
    LET o == nextObj + 1
    IN  /\ authDir' = mkAuth(authDir, id)
        /\ heap' = [heap EXCEPT ![o] = NewSession(id)]
        /\ sessions' = [sessions EXCEPT ![id] = o]
        /\ nextObj' = o
        /\ calls' = [calls EXCEPT ![c] = [op |-> "start", pc |-> "awaitAuthState",
                                          id |-> id, obj |-> o]]

\* calls that will still construct a session object
PendingStarts == {c \in Calls : calls[c].pc = "awaitDisconnect"}

\* startSession up to its first await: the teardown's store update when a
\* session is registered, else useMultiFileAuthState
startEnter(c, id) ==
    /\ calls[c].pc = "idle"
    /\ \A d \in Calls : d < c => calls[d].pc # "idle"
    /\ nextObj + Cardinality(PendingStarts) < MaxObj
    /\ IF sessions[id] # NoSession
       THEN /\ teardown(id)
            /\ calls' = [calls EXCEPT ![c] = [op |-> "start", pc |-> "awaitDisconnect",
                                              id |-> id, obj |-> NoSession]]
            /\ UNCHANGED nextObj
       ELSE register(c, id)
    /\ UNCHANGED <<timers, integration, historyVars>>
    /\ UNCHANGED <<ingestVars, webVars, outVars, batchVars>>

\* the teardown's store update resolves; startSession goes on to register
\* its session and suspends in connectSocket
startAfterDisconnect(c) ==
    /\ calls[c].pc = "awaitDisconnect"
    /\ integration' = writeDisconnectedCleared(calls[c].id)
    /\ register(c, calls[c].id)
    /\ UNCHANGED <<timers, historyVars>>
    /\ UNCHANGED <<ingestVars, webVars, outVars, batchVars>>

\* useMultiFileAuthState resolves; connectSocket creates the socket
startConnect(c) ==
    /\ calls[c].pc = "awaitAuthState"
    /\ authDir' = mkAuth(authDir, calls[c].id)
    /\ heap' = connectSocket(heap, calls[c].obj)
    /\ calls' = [calls EXCEPT ![c].pc = "done"]
    /\ UNCHANGED <<sessions, nextObj, timers, integration, historyVars>>
    /\ UNCHANGED <<ingestVars, webVars, outVars, batchVars>>

\* disconnectSession up to its await
disconnectEnter(c, id) ==
    /\ calls[c].pc = "idle"
    /\ \A d \in Calls : d < c => calls[d].pc # "idle"
    /\ teardown(id)
    /\ calls' = [calls EXCEPT ![c] = [op |-> "disconnect", pc |-> "awaitUpdate",
                                      id |-> id, obj |-> NoSession]]
    /\ UNCHANGED <<nextObj, timers, integration, historyVars>>
    /\ UNCHANGED <<ingestVars, webVars, outVars, batchVars>>

\* the store update of disconnectSession resolves
disconnectAfterUpdate(c) ==
    /\ calls[c].pc = "awaitUpdate"
    /\ integration' = writeDisconnectedCleared(calls[c].id)
    /\ calls' = [calls EXCEPT ![c].pc = "done"]
    /\ UNCHANGED <<sessions, heap, nextObj, timers, authDir, historyVars>>
    /\ UNCHANGED <<ingestVars, webVars, outVars, batchVars>>

\* the calls beside the pairing and open events of the sockets they made
RaceNext ==
    \/ \E c \in Calls, id \in IntegrationIds : startEnter(c, id)
    \/ \E c \in Calls : startAfterDisconnect(c)
    \/ \E c \in Calls : startConnect(c)
    \/ \E c \in Calls, id \in IntegrationIds : disconnectEnter(c, id)
    \/ \E c \in Calls : disconnectAfterUpdate(c)
    \/ \E o \in Objs, ok \in BOOLEAN : qrUpdate(o, ok)
    \/ \E o \in Objs, phone \in Phones : openUpdate(o, phone)

RaceSpec == Init /\ [][RaceNext]_vars



----------------------------------------------------------------------------
(* Relational store, as the ingestion handlers use it: tables of rows that *)
(* findFirst filters and create appends to.                                *)

Indices(rows) == 1..Len(rows)

\* variant: no duplicate lookup
messageExists_never(mid) == FALSE

\* variant: the lookup considers inbound rows only
messageExists_inboundOnly(mid) ==
    \E i \in Indices(messages) : /\ messages[i].externalMessageId = mid
                                  /\ messages[i].sender = "contact"

\* prisma.message.findFirst({where: {externalMessageId}})
messageExists(mid) == \E i \in Indices(messages) : messages[i].externalMessageId = mid

\* variant: the lookup compares the e-mail column with the external id
contactMatches_byEmail(ev) ==
    {i \in Indices(contacts) :
        /\ contacts[i].customerId = ev.customerId
        /\ contacts[i].email = <<ev.externalId>>
        /\ contacts[i].channel = ev.channel}

\* the lookup without its customerId filter
contactMatches_anyTenant(ev) ==
    {i \in Indices(contacts) :
        /\ contacts[i].externalId = ev.externalId
        /\ contacts[i].channel = ev.channel}

\* prisma.contact.findFirst({where: {customerId, externalId, channel}})
contactMatches(ev) ==
    {i \in Indices(contacts) :
        /\ contacts[i].customerId = ev.customerId
        /\ contacts[i].externalId = ev.externalId
        /\ contacts[i].channel = ev.channel}

\* the lookup of the paired channel without its integrationId filter
conversationMatches_anyIntegration(ev, c) ==
    {i \in Indices(conversations) :
        /\ conversations[i].contactId = c
        /\ conversations[i].customerId = ev.customerId}

\* prisma.conversation.findFirst: the paired channel filters on contactId,
\* customerId and integrationId; the webhook channel on contactId, channel
\* and customerId
conversationMatches(ev, c) ==
    {i \in Indices(conversations) :
        /\ conversations[i].contactId = c
        /\ conversations[i].customerId = ev.customerId
        /\ IF ev.channel = "whatsapp"
           THEN conversations[i].integrationId = ev.integrationId
           ELSE conversations[i].channel = ev.channel}

\* the synthetic address of an ingested contact, as the parts of the
\* template string; external ids stand for the part of a JID before the '@'
placeholderEmail(channel, externalId) ==
    IF channel = "whatsapp"
    THEN <<externalId, "@whatsapp.placeholder">>
    ELSE <<"messenger_", externalId, "@facebook.placeholder">>

newContact(ev) ==
    [customerId |-> ev.customerId, channel |-> ev.channel,
     externalId |-> ev.externalId, status |-> "new",
     email |-> placeholderEmail(ev.channel, ev.externalId)]

newConversation(ev, c) ==
    [contactId |-> c, customerId |-> ev.customerId, channel |-> ev.channel,
     integrationId |-> ev.integrationId, unreadCount |-> 0]

newMessage(ev, cv) ==
    [text |-> ev.text, sender |-> "contact", externalMessageId |-> ev.mid,
     conversationId |-> cv]

newDeal(c) == [contactId |-> c, amount |-> 0, status |-> "InProgress"]

\* the update without its where clause on the conversation's id
incrementUnread_unscoped(cv) ==
    [c \in Indices(conversations) |->
        [conversations[c] EXCEPT !.unreadCount = @ + 1]]

\* where: {id: conversation.id}, data: {unreadCount: {increment: 1}}
incrementUnread(cv) == [conversations EXCEPT ![cv].unreadCount = @ + 1]

\* the paired channel auto-creates a deal for a new contact; the webhook
\* channel has no such step
afterUnread(d) ==
    IF d.ev.channel = "whatsapp" /\ d.isNewContact THEN "dealCreate" ELSE "done"

----------------------------------------------------------------------------
(* Inbound ingestion: one step per awaited store call.  A step performs the *)
(* call and the synchronous code up to the next await.                      *)

\* a handler that returned keeps no locals
Goto(p, pc) ==
    deliveries' = [deliveries EXCEPT ![p] =
                     IF pc = "done"
                     THEN [Idle EXCEPT !.pc = "done", !.ev = deliveries[p].ev]
                     ELSE [deliveries[p] EXCEPT !.pc = pc]]

\* variant: events without text are handled like any other
skipsEvent_never(ev) == FALSE

\* if (!text) continue / if (!message || !message.text) return
skipsEvent(ev) == ev.text = ""

\* the handler is entered with event ev; events without text are skipped.
\* Invocations are interchangeable, so they are numbered in order of arrival.
startDelivery(p, ev) ==
    /\ deliveries[p].pc = "idle"
    /\ \A q \in Deliveries : q < p => deliveries[q].pc # "idle"
    /\ deliveries' = [deliveries EXCEPT ![p] =
                        [Idle EXCEPT !.ev = ev,
                                     !.pc = IF skipsEvent(ev) THEN "done" ELSE "dedupe"]]

deliver(p, ev) ==
    /\ startDelivery(p, ev)
    /\ UNCHANGED storeVars
    /\ UNCHANGED nonIngestVars

dedupeLookup(p) ==
    /\ deliveries[p].pc = "dedupe"
    /\ Goto(p, IF messageExists(deliveries[p].ev.mid) THEN "done" ELSE "contactLookup")
    /\ UNCHANGED storeVars
    /\ UNCHANGED nonIngestVars

contactLookup(p) ==
    /\ deliveries[p].pc = "contactLookup"
    /\ LET found == contactMatches(deliveries[p].ev)
       IN  IF found = {}
           THEN deliveries' = [deliveries EXCEPT ![p].pc = "contactCreate",
                                                 ![p].isNewContact = TRUE]
           ELSE \E c \in found :
                  deliveries' = [deliveries EXCEPT ![p].pc = "conversationLookup",
                                                   ![p].contact = c]
    /\ UNCHANGED storeVars
    /\ UNCHANGED nonIngestVars

contactCreate(p) ==
    /\ deliveries[p].pc = "contactCreate"
    /\ contacts' = Append(contacts, newContact(deliveries[p].ev))
    /\ deliveries' = [deliveries EXCEPT ![p].pc = "conversationLookup",
                                        ![p].contact = Len(contacts) + 1]
    /\ UNCHANGED <<conversations, messages, deals>>
    /\ UNCHANGED nonIngestVars

conversationLookup(p) ==
    /\ deliveries[p].pc = "conversationLookup"
    /\ LET found == conversationMatches(deliveries[p].ev, deliveries[p].contact)
       IN  IF found = {}
           THEN Goto(p, "conversationCreate")
           ELSE \E cv \in found :
                  deliveries' = [deliveries EXCEPT ![p].pc = "messageCreate",
                                                   ![p].conversation = cv]
    /\ UNCHANGED storeVars
    /\ UNCHANGED nonIngestVars

conversationCreate(p) ==
    /\ deliveries[p].pc = "conversationCreate"
    /\ conversations' = Append(conversations,
                               newConversation(deliveries[p].ev, deliveries[p].contact))
    /\ deliveries' = [deliveries EXCEPT ![p].pc = "messageCreate",
                                        ![p].conversation = Len(conversations) + 1]
    /\ UNCHANGED <<contacts, messages, deals>>
    /\ UNCHANGED nonIngestVars

messageCreate(p) ==
    /\ deliveries[p].pc = "messageCreate"
    /\ messages' = Append(messages,
                          newMessage(deliveries[p].ev, deliveries[p].conversation))
    /\ Goto(p, "unreadUpdate")
    /\ UNCHANGED <<contacts, conversations, deals>>
    /\ UNCHANGED nonIngestVars

unreadUpdate(p) ==
    /\ deliveries[p].pc = "unreadUpdate"
    /\ conversations' = incrementUnread(deliveries[p].conversation)
    /\ Goto(p, afterUnread(deliveries[p]))
    /\ UNCHANGED <<contacts, messages, deals>>
    /\ UNCHANGED nonIngestVars

dealCreate(p) ==
    /\ deliveries[p].pc = "dealCreate"
    /\ deals' = Append(deals, newDeal(deliveries[p].contact))
    /\ Goto(p, "done")
    /\ UNCHANGED <<contacts, conversations, messages>>
    /\ UNCHANGED nonIngestVars

InFlight(p) == deliveries[p].pc \notin {"idle", "done"}

\* a delivery that starts only when no other one is in flight
deliverAlone(p, ev) ==
    /\ \A q \in Deliveries : ~InFlight(q)
    /\ deliver(p, ev)

IngestStep ==
    \/ \E p \in Deliveries : dedupeLookup(p)
    \/ \E p \in Deliveries : contactLookup(p)
    \/ \E p \in Deliveries : contactCreate(p)
    \/ \E p \in Deliveries : conversationLookup(p)
    \/ \E p \in Deliveries : conversationCreate(p)
    \/ \E p \in Deliveries : messageCreate(p)
    \/ \E p \in Deliveries : unreadUpdate(p)
    \/ \E p \in Deliveries : dealCreate(p)

\* concurrent deliveries: handlers interleave at their awaits
IngestNext ==
    \/ \E p \in Deliveries, ev \in Events : deliver(p, ev)
    \/ IngestStep

IngestSpec == Init /\ [][IngestNext]_vars

\* sequential deliveries: each event is ingested to completion before the next
SeqIngestNext ==
    \/ \E p \in Deliveries, ev \in Events : deliverAlone(p, ev)
    \/ IngestStep

SeqIngestSpec == Init /\ [][SeqIngestNext]_vars

----------------------------------------------------------------------------
(* A batch: the events of one messages.upsert notification or of one       *)
(* webhook POST, looped over with one awaited handler run per event, and   *)
(* store calls that may reject                                             *)

\* batches carry events of one channel and one tenant
Batches ==
    {b \in [Deliveries -> Events] :
        \A p, q \in Deliveries : /\ b[p].channel = b[q].channel
                                  /\ b[p].customerId = b[q].customerId}

\* the handler of delivery p is suspended at a store call
AtStoreCall(p) ==
    deliveries[p].pc \in {"dedupe", "contactLookup", "contactCreate",
                          "conversationLookup", "conversationCreate",
                          "messageCreate", "unreadUpdate", "dealCreate"}

\* is a rejection at this step caught inside the handler: the paired
\* channel's try block encloses the duplicate lookup, the webhook's does not
caught(channel, pc) == channel = "whatsapp" \/ pc # "dedupe"

receiveBatch(b) ==
    /\ batch = NoBatch
    /\ batch' = [channel |-> b[1].channel, events |-> b, aborted |-> FALSE]
    /\ UNCHANGED <<sessionVars, historyVars, ingestVars, webVars, outVars, callVars>>

\* the loop hands the next event to the handler once the previous run returned
nextEvent(p) ==
    /\ batch # NoBatch
    /\ ~batch.aborted
    /\ \A q \in Deliveries : q < p => deliveries[q].pc \in {"done", "failed"}
    /\ startDelivery(p, batch.events[p])
    /\ UNCHANGED <<sessionVars, historyVars, storeVars, webVars, outVars, callVars, batch>>

\* the awaited store call of delivery p rejects: a caught error ends this
\* event only, an uncaught one leaves the handler and the loop around it
storeFailure(p) ==
    /\ AtStoreCall(p)
    /\ IF caught(batch.channel, deliveries[p].pc)
       THEN /\ deliveries' = [deliveries EXCEPT ![p] =
                                [Idle EXCEPT !.pc = "failed", !.ev = deliveries[p].ev]]
            /\ UNCHANGED batch
       ELSE /\ deliveries' = [deliveries EXCEPT ![p] =
                                [Idle EXCEPT !.pc = "thrown", !.ev = deliveries[p].ev]]
            /\ batch' = [batch EXCEPT !.aborted = TRUE]
    /\ UNCHANGED <<sessionVars, historyVars, storeVars, webVars, outVars, callVars>>

BatchNext ==
    \/ \E b \in Batches : receiveBatch(b)
    \/ \E p \in Deliveries : nextEvent(p)
    \/ \E p \in Deliveries : storeFailure(p)
    \/ IngestStep

BatchSpec == Init /\ [][BatchNext]_vars

----------------------------------------------------------------------------
(* The webhook route: express.json({verify: preserveRawBody}), then         *)
(* validateFacebookSignature, then the POST handler                         *)

\* the verify hook of the body parser keeps the bytes as they arrived
preserveRawBody(req) == [req EXCEPT !.rawBody = req.body]

\* the bytes the digest is computed over
signedBytes_reserialized(req) == parse(req.rawBody)
signedBytes(req) == req.rawBody

expectedSignature(req) == SignaturePrefix \o hmacHex(AppSecret, signedBytes(req))

\* crypto.timingSafeEqual: a RangeError when the lengths differ
timingSafeEqual(a, b) ==
    IF Len(a) # Len(b) THEN "throw"
    ELSE IF \A i \in 1..Len(a) : a[i] = b[i] THEN "equal" ELSE "differ"

\* what validateFacebookSignature does with a request: "next" or the status
\* of the error response (a thrown error becomes the framework's 500)
validateOutcome_failOpen(req) ==
    IF ~req.secret THEN "next"
    ELSE IF req.signature = << >> THEN "401"
    ELSE IF req.rawBody = << >> THEN "500"
    ELSE LET cmp == timingSafeEqual(req.signature, expectedSignature(req))
         IN  IF cmp = "equal" THEN "next" ELSE IF cmp = "differ" THEN "401" ELSE "500"
validateOutcome(req) ==
    IF ~req.secret THEN "500"
    ELSE IF req.signature = << >> THEN "401"
    ELSE IF req.rawBody = << >> THEN "500"
    ELSE LET cmp == timingSafeEqual(req.signature, expectedSignature(req))
         IN  IF cmp = "equal" THEN "next" ELSE IF cmp = "differ" THEN "401" ELSE "500"

StatusOf(outcome) == IF outcome = "401" THEN 401 ELSE 500

\* the messaging event carried by a parsed payload
eventOf(payload) ==
    [customerId |-> "T1", channel |-> "messenger", externalId |-> "123",
     mid |-> IF payload[1] = "1" THEN "m1" ELSE "m2", text |-> "hi",
     integrationId |-> "null"]

\* a request reaches the server; requests go through the middleware chain
\* one at a time (the chain keeps no state between requests)
arrive(r, secret, json, body, signature) ==
    /\ requests[r].stage = "none"
    /\ \A q \in Requests : q < r => requests[q].stage \in {"rejected", "handled"}
    /\ requests' = [requests EXCEPT ![r] =
                      [NoRequest EXCEPT !.stage = "received", !.secret = secret,
                                        !.json = json, !.body = body,
                                        !.signature = signature]]
    /\ UNCHANGED <<nonWebVars, ingestVars>>

\* express.json: a JSON body is handed to the verify hook and then parsed;
\* any other content type passes through untouched
jsonBodyParser(r) ==
    /\ requests[r].stage = "received"
    /\ requests' = [requests EXCEPT ![r] =
                      IF requests[r].json
                      THEN [preserveRawBody(requests[r]) EXCEPT !.parsed = TRUE,
                                                                !.stage = "routed"]
                      ELSE [requests[r] EXCEPT !.stage = "routed"]]
    /\ UNCHANGED <<nonWebVars, ingestVars>>

validateFacebookSignature(r) ==
    /\ requests[r].stage = "routed"
    /\ LET outcome == validateOutcome(requests[r])
       IN  requests' = [requests EXCEPT ![r] =
                          IF outcome = "next"
                          THEN [requests[r] EXCEPT !.stage = "accepted"]
                          ELSE [requests[r] EXCEPT !.stage = "rejected",
                                                   !.response = StatusOf(outcome)]]
    /\ UNCHANGED <<nonWebVars, ingestVars>>

\* POST handler: answers 200, looks the page's integration up and hands the
\* messaging event to processMessagingEvent
webhookHandler(r, pageKnown) ==
    /\ requests[r].stage = "accepted"
    /\ IF pageKnown /\ \E p \in Deliveries : deliveries[p].pc = "idle"
       THEN \E p \in Deliveries :
               /\ startDelivery(p, eventOf(parse(requests[r].body)))
               /\ requests' = [requests EXCEPT ![r].stage = "handled",
                                               ![r].response = 200,
                                               ![r].delivery = p]
       ELSE /\ requests' = [requests EXCEPT ![r].stage = "handled",
                                            ![r].response = 200]
            /\ UNCHANGED deliveries
    /\ UNCHANGED <<nonWebVars, storeVars>>

\* the steps of processMessagingEvent (it creates no deal)
WebhookIngestStep ==
    \E p \in Deliveries :
        \/ dedupeLookup(p)
        \/ contactLookup(p)
        \/ contactCreate(p)
        \/ conversationLookup(p)
        \/ conversationCreate(p)
        \/ messageCreate(p)
        \/ unreadUpdate(p)

WebhookNext ==
    \/ \E r \in Requests, secret \in BOOLEAN, json \in BOOLEAN,
          body \in Bodies, signature \in Signatures :
            arrive(r, secret, json, body, signature)
    \/ \E r \in Requests : jsonBodyParser(r)
    \/ \E r \in Requests : validateFacebookSignature(r)
    \/ \E r \in Requests, pageKnown \in BOOLEAN : webhookHandler(r, pageKnown)
    \/ WebhookIngestStep

WebhookSpec == Init /\ [][WebhookNext]_vars


----------------------------------------------------------------------------
(* The send route: POST /:conversationId/messages *)

MaxSends == 1                    \* send requests in one run

\* the conversations a user can send on: one created by paired-channel
\* ingestion, one created with a manually entered contact (no integration,
\* no external identity), one created by webhook ingestion
OutContacts ==
    << [customerId |-> "T1", channel |-> "whatsapp", externalId |-> "123", status |-> "new",
        email |-> placeholderEmail("whatsapp", "123")],
       [customerId |-> "T1", channel |-> "whatsapp", externalId |-> "null", status |-> "new",
        email |-> <<"manual@example.com">>],
       [customerId |-> "T1", channel |-> "messenger", externalId |-> "123", status |-> "new",
        email |-> placeholderEmail("messenger", "123")] >>

OutConversations ==
    << [contactId |-> 1, customerId |-> "T1", channel |-> "whatsapp",
        integrationId |-> "I1", unreadCount |-> 0],
       [contactId |-> 2, customerId |-> "T1", channel |-> "whatsapp",
        integrationId |-> "null", unreadCount |-> 0],
       [contactId |-> 3, customerId |-> "T1", channel |-> "messenger",
        integrationId |-> "null", unreadCount |-> 0] >>

OutboundInit ==
    /\ SessionInit
    /\ contacts = OutContacts
    /\ conversations = OutConversations
    /\ messages = << >>
    /\ deals = << >>
    /\ deliveries = [p \in Deliveries |-> Idle]
    /\ requests = [r \in Requests |-> NoRequest]
    /\ messenger \in {"connected", "disconnected"}
    /\ outbox = << >>

\* the guard of sendWhatsAppMessage passes
sendAllowed(id) ==
    /\ sessions[id] # NoSession
    /\ heap[sessions[id]].socket # "null"
    /\ heap[sessions[id]].status = "connected"

outboundMessage(cv, externalMessageId) ==
    [text |-> "hi", sender |-> "user", externalMessageId |-> externalMessageId,
     conversationId |-> cv]

\* the whole route for conversation cv; delivered is the outcome of the
\* transport call when it is made
sendMessage(cv, delivered) ==
    /\ Len(outbox) < MaxSends
    /\ LET conv == conversations[cv]
           contact == contacts[conv.contactId]
           viaWhatsApp == /\ conv.channel = "whatsapp"
                          /\ conv.integrationId # "null"
                          /\ contact.externalId # "null"
           viaMessenger == /\ ~viaWhatsApp
                           /\ conv.channel = "messenger"
                           /\ contact.externalId # "null"
           invoked == \/ viaWhatsApp /\ sendAllowed(conv.integrationId)
                      \/ viaMessenger /\ messenger = "connected"
           failed == \/ viaWhatsApp /\ ~sendAllowed(conv.integrationId)
                     \/ invoked /\ ~delivered
           connected ==
               IF conv.channel = "whatsapp"
               THEN /\ conv.integrationId # "null"
                    /\ sessions[conv.integrationId] # NoSession
                    /\ heap[sessions[conv.integrationId]].status = "connected"
               ELSE messenger = "connected"
       IN  /\ delivered => invoked
           /\ delivered /\ viaWhatsApp => heap[sessions[conv.integrationId]].socket = "open"
           /\ messages' = IF failed THEN messages
                          ELSE Append(messages,
                                      outboundMessage(cv, IF invoked THEN "out1" ELSE "null"))
           /\ outbox' = Append(outbox,
                               [conversation |-> cv, connected |-> connected,
                                invoked |-> invoked,
                                response |-> IF failed THEN 502 ELSE 201,
                                row |-> IF failed THEN 0 ELSE Len(messages) + 1])
    /\ UNCHANGED <<sessionVars, historyVars, webVars, messenger, callVars, batchVars>>
    /\ UNCHANGED <<contacts, conversations, deals, deliveries>>

\* one session per run is enough for every state a send can observe
OutboundNext ==
    \/ \E id \in IntegrationIds : nextObj = 0 /\ startSession(id)
    \/ \E id \in IntegrationIds : disconnectSession(id)
    \/ \E o \in Objs, ok \in BOOLEAN : qrUpdate(o, ok)
    \/ \E o \in Objs, phone \in Phones : openUpdate(o, phone)
    \/ \E o \in Objs, loggedOut \in BOOLEAN : closeUpdate(o, loggedOut)
    \/ \E o \in Objs : reconnectTimer(o)
    \/ \E cv \in Indices(conversations), delivered \in BOOLEAN : sendMessage(cv, delivered)

OutboundSpec == OutboundInit /\ [][OutboundNext]_vars

----------------------------------------------------------------------------
(* Ingestion into a store that already holds a sent message *)

\* tenant T2 has a webhook-channel conversation and has sent one message on
\* it, which the transport acknowledged with the id m1
DedupeInit ==
    /\ SessionInit
    /\ contacts = << [customerId |-> "T2", channel |-> "messenger",
                      externalId |-> "123", status |-> "new",
                      email |-> placeholderEmail("messenger", "123")] >>
    /\ conversations = << [contactId |-> 1, customerId |-> "T2", channel |-> "messenger",
                           integrationId |-> "null", unreadCount |-> 0] >>
    /\ messages = << outboundMessage(1, "m1") >>
    /\ deals = << >>
    /\ deliveries = [p \in Deliveries |-> Idle]
    /\ requests = [r \in Requests |-> NoRequest]
    /\ messenger = "connected"
    /\ outbox = << >>

DedupeSpec == DedupeInit /\ [][SeqIngestNext]_vars

----------------------------------------------------------------------------
(* Concurrent ingestion into a store that enforces its unique indexes.  A  *)
(* create that an index rejects throws inside the handler's try block.     *)

\* the events of one sender of tenant T1: redeliveries of the same message
\* on a channel share their id
RedeliveredEvents == {ev \in Events : ev.customerId = "T1" /\ ev.text # ""}

\* Contact rows are unique by (customerId, email), and ingestion derives the
\* email from the channel and the sender's external id
contactKeyTaken(ev) == contactMatches(ev) # {}

\* Message rows are unique by externalMessageId when it is present
messageIdTaken(mid) ==
    \E i \in Indices(messages) : messages[i].externalMessageId = mid

\* where the handler continues when the create at pc threw: the catch block
\* logs the error and the handler returns
afterRejectedCreate_swallowed(pc) ==
    IF pc = "messageCreate" THEN "unreadUpdate" ELSE "failed"

afterRejectedCreate(pc) == "failed"

rejectedCreate(p) ==
    LET pc == afterRejectedCreate(deliveries[p].pc)
    IN  /\ deliveries' = [deliveries EXCEPT ![p] =
                            IF pc = "failed"
                            THEN [Idle EXCEPT !.pc = "failed", !.ev = deliveries[p].ev]
                            ELSE [deliveries[p] EXCEPT !.pc = pc]]
        /\ UNCHANGED storeVars
        /\ UNCHANGED nonIngestVars

contactCreateIndexed(p) ==
    /\ deliveries[p].pc = "contactCreate"
    /\ IF contactKeyTaken(deliveries[p].ev) THEN rejectedCreate(p) ELSE contactCreate(p)

messageCreateIndexed(p) ==
    /\ deliveries[p].pc = "messageCreate"
    /\ IF messageIdTaken(deliveries[p].ev.mid) THEN rejectedCreate(p) ELSE messageCreate(p)

IndexedIngestStep ==
    \E p \in Deliveries :
        \/ dedupeLookup(p)
        \/ contactLookup(p)
        \/ contactCreateIndexed(p)
        \/ conversationLookup(p)
        \/ conversationCreate(p)
        \/ messageCreateIndexed(p)
        \/ unreadUpdate(p)
        \/ dealCreate(p)

IndexedIngestNext ==
    \/ \E p \in Deliveries, ev \in RedeliveredEvents : deliver(p, ev)
    \/ IndexedIngestStep

IndexedIngestSpec == Init /\ [][IndexedIngestNext]_vars

----------------------------------------------------------------------------
(* The inbox: ingestion, the send route, the read route and the session    *)
(* lifecycle acting on the same conversations                               *)

\* PUT /:conversationId/read by a user of the tenant: a conversation of
\* another tenant is not found (404) and nothing is written
markRead(tenant, cv) ==
    /\ conversations' =
          IF conversations[cv].customerId = tenant
          THEN [conversations EXCEPT ![cv].unreadCount = 0]
          ELSE conversations
    /\ UNCHANGED <<contacts, messages, deals, deliveries>>
    /\ UNCHANGED nonIngestVars

InboxNext ==
    \/ \E p \in Deliveries, ev \in RedeliveredEvents : deliverAlone(p, ev)
    \/ IngestStep
    \/ \E tenant \in Tenants, cv \in Indices(conversations) : markRead(tenant, cv)
    \/ \E cv \in Indices(conversations), delivered \in BOOLEAN : sendMessage(cv, delivered)
    \/ \E id \in IntegrationIds : nextObj = 0 /\ startSession(id)
    \/ \E id \in IntegrationIds : disconnectSession(id)
    \/ \E o \in Objs, phone \in Phones : openUpdate(o, phone)
    \/ \E o \in Objs, loggedOut \in BOOLEAN : closeUpdate(o, loggedOut)

InboxSpec == Init /\ [][InboxNext]_vars

----------------------------------------------------------------------------
(* Sequential ingestion of one sender's messages arriving for two tenants  *)
(* and, on the paired channel, through two integrations of tenant T1       *)

ScopedEvents ==
    {e \in [customerId : Tenants, channel : Channels, externalId : ExternalIds,
            mid : MessageIds, text : {"hi"}, integrationId : {"I1", "I2", "I3", "null"}] :
        /\ (e.channel = "messenger") <=> (e.integrationId = "null")
        /\ e.channel = "whatsapp" =>
              (e.customerId = "T1") <=> (e.integrationId \in {"I1", "I2"})}

ScopedIngestNext ==
    \/ \E p \in Deliveries, ev \in ScopedEvents : deliverAlone(p, ev)
    \/ IngestStep

ScopedIngestSpec == Init /\ [][ScopedIngestNext]_vars

----------------------------------------------------------------------------
(* Process start: reconnectAllSessions over the stored Integration rows    *)

BootIds == {"I1", "I2"}
Users == {"U1"}

\* Integration rows as the process finds them at start.  Only rows of the
\* paired channel are created with a user; every other channel's rows are
\* tenant-wide.
StoredIntegrations ==
    {r \in [status : {"connected", "disconnected"}, whatsappPhoneNumber : {"null"},
            channel : Channels, customerId : Tenants, userId : Users \cup {"null"}] :
        r.channel # "whatsapp" => r.userId = "null"}

BootInit ==
    /\ sessions = [id \in BootIds |-> NoSession]
    /\ heap = [o \in Objs |-> Unallocated]
    /\ nextObj = 0
    /\ timers = [o \in Objs |-> << >>]
    /\ authDir \in [BootIds -> BOOLEAN]
    /\ integration \in [BootIds -> StoredIntegrations]
    /\ drops = [o \in Objs |-> 0]
    /\ torn = {}
    /\ scenario = 0
    /\ calls = [c \in Calls |-> NoCall]
    /\ batch = NoBatch
    /\ contacts = << >>
    /\ conversations = << >>
    /\ messages = << >>
    /\ deals = << >>
    /\ deliveries = [p \in Deliveries |-> Idle]
    /\ requests = [r \in Requests |-> NoRequest]
    /\ messenger = "disconnected"
    /\ outbox = << >>

\* variant: the query without its status filter
reconnectCandidate_anyStatus(row) ==
    /\ row.channel = "whatsapp"
    /\ row.userId # "null"

\* findMany({where: {channel: 'whatsapp', status: 'connected',
\* userId: {not: null}}}) and the loop's if (integration.userId)
reconnectCandidate(row) ==
    /\ row.channel = "whatsapp"
    /\ row.status = "connected"
    /\ row.userId # "null"

\* variant: the owners passed in the wrong order
OwnedSession_swapped(id, customerId, userId) ==
    [integrationId |-> id, socket |-> "null", qrCode |-> FALSE,
     status |-> "connecting", retryCount |-> 0,
     customerId |-> userId, userId |-> customerId]

\* the session literal of startSession with its owner fields
OwnedSession(id, customerId, userId) ==
    [integrationId |-> id, socket |-> "null", qrCode |-> FALSE,
     status |-> "connecting", retryCount |-> 0,
     customerId |-> customerId, userId |-> userId]

\* a startSession call reconnectAllSessions is going to make
PendingStart(id) ==
    [op |-> "start", pc |-> "pending", id |-> id, obj |-> NoSession,
     customerId |-> integration[id].customerId, userId |-> integration[id].userId]

\* the query resolves: the loop will visit the rows found, in the order
\* the store returned them
reconnectLoad(found) ==
    /\ \A c \in Calls : calls[c].pc = "idle"
    /\ Len(found) <= MaxCalls
    /\ \A i, j \in 1..Len(found) : found[i] = found[j] => i = j
    /\ {found[i] : i \in 1..Len(found)} =
          {id \in BootIds : reconnectCandidate(integration[id])}
    /\ calls' = [c \in Calls |->
                   IF c <= Len(found) THEN PendingStart(found[c]) ELSE NoCall]
    /\ UNCHANGED <<sessionVars, historyVars>>
    /\ UNCHANGED <<ingestVars, webVars, outVars, batchVars>>

\* one iteration: await startSession(id, customerId, userId) inside try.
\* opened = FALSE: useMultiFileAuthState or makeWASocket throws in
\* connectSocket, after the session was registered; startSession rejects
\* and the loop's catch logs it.
reconnectStart(c, opened) ==
    /\ calls[c].pc = "pending"
    /\ \A d \in Calls : d < c => calls[d].pc \in {"done", "thrown"}
    /\ nextObj < MaxObj
    /\ LET id == calls[c].id
           o == nextObj + 1
           had == sessions[id] # NoSession
           h1 == IF had THEN endSocket(heap, sessions[id]) ELSE heap
           a1 == IF had THEN rmAuth(id) ELSE authDir
           h2 == [h1 EXCEPT ![o] = OwnedSession(id, calls[c].customerId, calls[c].userId)]
       IN  /\ heap' = IF opened THEN connectSocket(h2, o) ELSE h2
           /\ authDir' = mkAuth(a1, id)
           /\ sessions' = [sessions EXCEPT ![id] = o]
           /\ integration' =
                 IF had THEN [integration EXCEPT ![id].status = "disconnected",
                                                 ![id].whatsappPhoneNumber = "null"]
                 ELSE integration
           /\ nextObj' = o
           /\ calls' = [calls EXCEPT ![c].pc = IF opened THEN "done" ELSE "thrown",
                                     ![c].obj = o]
    /\ UNCHANGED <<timers, historyVars>>
    /\ UNCHANGED <<ingestVars, webVars, outVars, batchVars>>

BootNext ==
    \/ \E found \in UNION {[1..n -> BootIds] : n \in 0..Cardinality(BootIds)} :
          reconnectLoad(found)
    \/ \E c \in Calls, opened \in BOOLEAN : reconnectStart(c, opened)

BootSpec == BootInit /\ [][BootNext]_vars

----------------------------------------------------------------------------
(* Process shutdown: one session through its lifecycle until SIGINT or     *)
(* SIGTERM calls disconnectAllSessions; no session is torn down before     *)

ShutdownNext ==
    \/ \E id \in IntegrationIds : nextObj = 0 /\ startSession(id)
    \/ \E o \in Objs, ok \in BOOLEAN : qrUpdate(o, ok)
    \/ \E o \in Objs, phone \in Phones : openUpdate(o, phone)
    \/ \E o \in Objs, loggedOut \in BOOLEAN : closeUpdate(o, loggedOut)
    \/ \E o \in Objs : reconnectTimer(o)
    \/ disconnectAllSessions

ShutdownSpec == Init /\ [][ShutdownNext]_vars

----------------------------------------------------------------------------
(* The read operations of the connection manager *)

\* sessions.get(integrationId); NoSession stands for undefined
getSession(id) == sessions[id]

\* variant: an absent session reports the stored status of the Integration
getQRCode_durable(id) ==
    IF sessions[id] = NoSession
    THEN [qrCode |-> FALSE, status |-> integration[id].status]
    ELSE [qrCode |-> heap[sessions[id]].qrCode, status |-> heap[sessions[id]].status]

\* qrCode FALSE stands for null
getQRCode(id) ==
    IF sessions[id] = NoSession
    THEN [qrCode |-> FALSE, status |-> "disconnected"]
    ELSE [qrCode |-> heap[sessions[id]].qrCode, status |-> heap[sessions[id]].status]

\* a caller reads the registry; the last answer is kept in calls[1]
getSessionCall(id) ==
    /\ calls' = [calls EXCEPT ![1] = [op |-> "getSession", pc |-> "done", id |-> id,
                                      obj |-> getSession(id)]]
    /\ UNCHANGED <<sessionVars, historyVars>>
    /\ UNCHANGED <<ingestVars, webVars, outVars, batchVars>>

getQRCodeCall(id) ==
    /\ calls' = [calls EXCEPT ![1] = [op |-> "getQRCode", pc |-> "done", id |-> id,
                                      obj |-> NoSession, result |-> getQRCode(id)]]
    /\ UNCHANGED <<sessionVars, historyVars>>
    /\ UNCHANGED <<ingestVars, webVars, outVars, batchVars>>

ReadNext ==
    \/ \E id \in IntegrationIds : nextObj = 0 /\ startSession(id)
    \/ \E id \in IntegrationIds : disconnectSession(id)
    \/ \E o \in Objs, ok \in BOOLEAN : qrUpdate(o, ok)
    \/ \E o \in Objs, phone \in Phones : openUpdate(o, phone)
    \/ \E o \in Objs, loggedOut \in BOOLEAN : closeUpdate(o, loggedOut)
    \/ \E o \in Objs : reconnectTimer(o)
    \/ disconnectAllSessions
    \/ \E id \in IntegrationIds : getSessionCall(id)
    \/ \E id \in IntegrationIds : getQRCodeCall(id)

ReadSpec == Init /\ [][ReadNext]_vars

----------------------------------------------------------------------------
(* Reconnect attempts whose transport cannot be opened *)

\* the setTimeout callback runs connectSocket and it throws: in
\* useMultiFileAuthState (stage "auth") or, after the auth directory was
\* made, in makeWASocket (stage "socket").  Nothing awaits or catches the
\* promise of the callback; session.socket keeps the closed socket.
reconnectTimerFails(o, stage) ==
    /\ UNCHANGED nonSessionVars
    /\ timers[o] # << >>
    /\ timers' = [timers EXCEPT ![o] = Tail(@)]
    /\ authDir' = IF stage = "socket" THEN mkAuth(authDir, heap[o].integrationId)
                  ELSE authDir
    /\ UNCHANGED <<sessions, heap, nextObj, integration>>
    /\ scenario' = ScenarioStep("timerfail", heap[o].integrationId)
    /\ UNCHANGED <<drops, torn>>

ReconnectNext ==
    \/ \E id \in IntegrationIds : startSession(id)
    \/ \E o \in Objs, ok \in BOOLEAN : qrUpdate(o, ok)
    \/ \E o \in Objs, phone \in Phones : openUpdate(o, phone)
    \/ \E o \in Objs, loggedOut \in BOOLEAN : closeUpdate(o, loggedOut)
    \/ \E o \in Objs : reconnectTimer(o)
    \/ \E o \in Objs, stage \in {"auth", "socket"} : reconnectTimerFails(o, stage)

ReconnectSpec == ManagerInit /\ [][ReconnectNext]_vars

----------------------------------------------------------------------------
(* Sequential ingestion with store calls that fail, and re-delivery *)

\* the handler of delivery p has returned, or p has not started
Returned(p) == deliveries[p].pc \in {"idle", "done", "failed", "thrown"}

\* the next event arrives once the previous handler run has returned
deliverNext(p, ev) ==
    /\ \A q \in Deliveries : Returned(q)
    /\ deliver(p, ev)

\* the awaited store call of delivery p rejects at one of the given steps:
\* the catch block logs it and the handler returns, earlier writes stay
callFails(p, steps) ==
    /\ deliveries[p].pc \in steps
    /\ AtStoreCall(p)
    /\ deliveries' = [deliveries EXCEPT ![p] =
                        [Idle EXCEPT !.pc = IF caught(deliveries[p].ev.channel,
                                                      deliveries[p].pc)
                                            THEN "failed" ELSE "thrown",
                                     !.ev = deliveries[p].ev]]
    /\ UNCHANGED storeVars
    /\ UNCHANGED nonIngestVars

\* failures of the Message append only
AppendFailureNext ==
    \/ \E p \in Deliveries, ev \in RedeliveredEvents : deliverNext(p, ev)
    \/ IngestStep
    \/ \E p \in Deliveries : callFails(p, {"messageCreate"})

AppendFailureSpec == Init /\ [][AppendFailureNext]_vars

\* failures of the store calls between the Contact step and the Deal step
DealStepFailureNext ==
    \/ \E p \in Deliveries, ev \in RedeliveredEvents : deliverNext(p, ev)
    \/ IngestStep
    \/ \E p \in Deliveries :
           callFails(p, {"conversationCreate", "messageCreate", "unreadUpdate"})

DealStepFailureSpec == Init /\ [][DealStepFailureNext]_vars

----------------------------------------------------------------------------
(* Properties of the connection manager *)

Allocated == 1..nextObj

\* a session the process still acts for: registered, or holding a live
\* transport, or with a reconnect scheduled
SessionExists(o) ==
    \/ sessions[heap[o].integrationId] = o
    \/ LiveSocket(o)
    \/ timers[o] # << >>

SessionsOf(id) == {o \in Allocated : heap[o].integrationId = id /\ SessionExists(o)}

\* C1: at most one Session, with its transport open or scheduled for
\* reconnect, exists per integration id after any sequence of startSession,
\* disconnectSession and transport events.
C1_AtMostOneSessionPerIntegration ==
    \A id \in IntegrationIds : Cardinality(SessionsOf(id)) <= 1

\* the status of the spec's state machine that a session object shows
SessionState(s) ==
    CASE s.status = "connected" -> "Connected"
      [] s.status = "disconnected" -> "Disconnected"
      [] s.status = "connecting" /\ s.qrCode -> "AwaitingPairing"
      [] OTHER -> "Connecting"

\* a transient drop that the retry budget still covers
TransientDrop(o) ==
    /\ drops'[o] = drops[o] + 1
    /\ Len(timers'[o]) = Len(timers[o]) + 1

\* C4: the k-th consecutive transient drop (k = 1..5) schedules the reconnect
\* after min(1000 * 2^(k-1), 30000) ms: 1000, 2000, 4000, 8000, 16000.
C4_BackoffDelays ==
    \A o \in Allocated :
        timers[o] # << >> =>
            /\ drops[o] \in 1..5
            /\ timers[o][Len(timers[o])] = Min(1000 * (2 ^ (drops[o] - 1)), 30000)

\* C5: each of the first five consecutive transient drops schedules exactly
\* one reconnect; the sixth schedules none, moves the session to Disconnected
\* and writes durable status disconnected; retryCount never exceeds 5.
C5_RetryBudget ==
    [][\A o \in Objs :
         /\ heap'[o].retryCount <= 5
         /\ drops'[o] = drops[o] + 1 /\ drops[o] < 5 =>
               Len(timers'[o]) = Len(timers[o]) + 1
         /\ drops'[o] = drops[o] + 1 /\ drops[o] >= 5 =>
               /\ timers'[o] = timers[o]
               /\ heap'[o].status = "disconnected"
               /\ integration'[heap[o].integrationId].status = "disconnected"
      ]_vars

C5_Witness ==
    \E o \in Allocated :
        /\ drops[o] = 6
        /\ heap[o].status = "disconnected"
        /\ timers[o] = << >>

\* C6: once disconnectSession(id) has run, and until startSession(id) runs
\* again, no reconnect attempt opens a transport for id.
C6_DisconnectCancelsReconnect ==
    [][\A o \in Objs :
         heap[o].integrationId \in torn /\ heap'[o].integrationId \in torn'
             => (~LiveSocket(o) => ~LiveSocket(o)')
      ]_vars

\* C7: after disconnectSession(id) on a registered session, in any status,
\* its transport is closed, the credential entry is gone, the registry has no
\* session for id and the durable row is disconnected with no phone number.
C7_DisconnectPostcondition ==
    [][\A id \in IntegrationIds :
         sessions[id] # NoSession /\ disconnectSession(id) =>
             /\ heap'[sessions[id]].socket \notin {"connecting", "open"}
             /\ ~authDir'[id]
             /\ sessions'[id] = NoSession
             /\ integration'[id] =
                    [status |-> "disconnected", whatsappPhoneNumber |-> "null"]
      ]_vars

C7_Witness ==
    \E o \in Allocated :
        /\ heap[o].integrationId \in torn
        /\ sessions[heap[o].integrationId] = NoSession
        /\ heap[o].socket = "ended"
        /\ heap[o].status = "connected"
        /\ ~authDir[heap[o].integrationId]

\* disconnectSession(id) would change nothing of the program's state here
DisconnectIsNoOp(id) ==
    /\ endSocket(heap, sessions[id]) = heap
    /\ rmAuth(id) = authDir
    /\ sessions[id] = NoSession
    /\ writeDisconnectedCleared(id) = integration

\* C8: disconnectSession on an id without a session succeeds, leaves the
\* registry without an entry and the durable status disconnected; a second
\* call right after a first changes nothing.
C8_DisconnectIdempotent ==
    [][\A id \in IntegrationIds :
         /\ sessions[id] = NoSession => ENABLED disconnectSession(id)
         /\ authDir'[id] = FALSE /\ torn' = torn \cup {id} /\ disconnectSession(id) =>
               /\ sessions'[id] = NoSession
               /\ integration'[id].status = "disconnected"
               /\ DisconnectIsNoOp(id)'
      ]_vars

C8_Witness ==
    /\ nextObj = 0
    /\ "I1" \in torn
    /\ sessions["I1"] = NoSession
    /\ integration["I1"].status = "disconnected"

AllowedTransitions ==
    {<<"Connecting", "AwaitingPairing">>, <<"AwaitingPairing", "Connected">>,
     <<"Connecting", "Connected">>, <<"Connected", "Connecting">>}
    \cup {<<a, "Disconnected">> : a \in {"Connecting", "AwaitingPairing", "Connected"}}

\* C9: a session's status changes only along Connecting -> AwaitingPairing ->
\* Connected, Connected -> Connecting on a transient drop, and any state ->
\* Disconnected; right after a transient drop of a Connected session its
\* status is Connecting.
C9_StatusTransitions ==
    [][\A o \in Allocated :
         LET a == SessionState(heap[o])
             b == SessionState(heap'[o])
         IN  /\ a # b => <<a, b>> \in AllowedTransitions
             /\ TransientDrop(o) /\ a = "Connected" => b = "Connecting"
      ]_vars

\* C10: a transition that reaches Connected writes connected to the durable
\* row and one that reaches Disconnected writes disconnected; a transient drop
\* leaves the durable row alone; after start, pairing, open, transient drop,
\* reconnect, open the durable status is connected.
C10_DurableWriteThrough ==
    [][\A o \in Objs :
         LET id == heap'[o].integrationId
         IN  /\ heap[o].socket # "open" /\ heap'[o].socket = "open" =>
                   /\ heap'[o].status = "connected"
                   /\ integration'[id].status = "connected"
             /\ heap[o].status # "disconnected" /\ heap'[o].status = "disconnected" =>
                   integration'[id].status = "disconnected"
             /\ TransientDrop(o) => integration' = integration
             /\ scenario' = 6 => integration'["I1"].status = "connected"
      ]_vars

C10_Witness ==
    /\ scenario = 6
    /\ integration["I1"].status = "connected"

\* C11: a logged-out close, in any session state and at any retryCount,
\* schedules no reconnect, moves the session to Disconnected, writes durable
\* status disconnected and deletes the credential entry of the integration.
C11_TerminalRevocation ==
    [][\A o \in Objs :
         heap'[o] # heap[o] /\ closeUpdate(o, TRUE) =>
             /\ timers' = timers
             /\ heap'[o].socket = "null"
             /\ heap'[o].status = "disconnected"
             /\ integration'[heap[o].integrationId].status = "disconnected"
             /\ ~authDir'[heap[o].integrationId]
      ]_vars

\* a session that gave up below the retry limit was revoked
C11_Witness ==
    \E o \in Allocated :
        /\ heap[o].status = "disconnected"
        /\ heap[o].retryCount \in 1..4
        /\ timers[o] = << >>
        /\ ~authDir[heap[o].integrationId]
        /\ integration[heap[o].integrationId].status = "disconnected"

----------------------------------------------------------------------------
(* Properties of the webhook route *)

\* the request has left validateFacebookSignature
Validated(r) == requests[r].stage \in {"rejected", "accepted", "handled"}

\* the header the sender of these exact bytes computes under the secret
GenuineSignature(bytes) == SignaturePrefix \o hmacHex(AppSecret, bytes)

Unauthentic(req) ==
    \/ ~req.secret
    \/ req.signature = << >>
    \/ req.rawBody = << >>
    \/ req.signature # GenuineSignature(req.rawBody)

\* C12: a request with no configured secret, no signature header, no raw
\* body or a header different from the expected signature (of any length) is
\* answered with an error status and never starts an ingestion; every
\* ingestion that was started belongs to an authentic request.
C12_FailsClosed ==
    /\ \A r \in Requests :
          Validated(r) /\ Unauthentic(requests[r]) =>
              /\ requests[r].stage = "rejected"
              /\ requests[r].response \in {401, 500}
              /\ requests[r].delivery = 0
    /\ \A p \in Deliveries :
          deliveries[p].pc # "idle" =>
              \E r \in Requests : /\ requests[r].delivery = p
                                  /\ ~Unauthentic(requests[r])

\* a header of another length than the expected signature was rejected
C12_Witness ==
    \E r \in Requests :
        /\ requests[r].stage = "rejected"
        /\ requests[r].secret
        /\ requests[r].rawBody # << >>
        /\ requests[r].signature # << >>
        /\ Len(requests[r].signature) # Len(GenuineSignature(requests[r].rawBody))

\* C13: with the secret configured and the raw body captured, a request
\* passes verification exactly when its header equals "sha256=" followed by
\* the hex HMAC of the bytes as they arrived.
C13_VerifyIffGenuine ==
    \A r \in Requests :
        Validated(r) /\ requests[r].secret /\ requests[r].json =>
            (requests[r].stage # "rejected"
                <=> requests[r].signature = GenuineSignature(requests[r].body))

\* a body that differs in one byte from the body its header was computed for
\* was rejected with 401
C13_Witness ==
    \E r \in Requests, b \in Bodies :
        /\ requests[r].stage = "rejected"
        /\ requests[r].response = 401
        /\ requests[r].secret /\ requests[r].json
        /\ requests[r].signature = GenuineSignature(b)
        /\ Len(b) = Len(requests[r].body)
        /\ b # requests[r].body

\* C14: a request whose verification fails is never parsed.
C14_NoParseBeforeVerify ==
    \A r \in Requests : requests[r].stage = "rejected" => ~requests[r].parsed

----------------------------------------------------------------------------
(* Properties of inbound ingestion *)

Delivered == {p \in Deliveries : deliveries[p].pc # "idle"}
AllDone == \A p \in Delivered : deliveries[p].pc = "done"

MessagesWith(mid) == {i \in Indices(messages) : messages[i].externalMessageId = mid}

\* the event of the retry scenario, on either channel
RetryEvent(ev) ==
    /\ ev.customerId = "T1"
    /\ ev.externalId = "123"
    /\ ev.mid = "m1"
    /\ ev.text = "hi"

\* the same event was delivered twice, one delivery after the other, and
\* nothing else was delivered
RetryScenario ==
    /\ Cardinality(Delivered) = 2
    /\ AllDone
    /\ \A p, q \in Delivered : deliveries[p].ev = deliveries[q].ev
    /\ \A p \in Delivered : RetryEvent(deliveries[p].ev)

\* C2: an event delivered twice in sequence leaves one Message row; the retry
\* scenario ends with one Contact, one Conversation with unreadCount 1 and
\* one Message.
C2_DuplicateDeliveryOnce ==
    /\ \A mid \in MessageIds : Cardinality(MessagesWith(mid)) <= 1
    /\ RetryScenario =>
          /\ Len(contacts) = 1
          /\ Len(conversations) = 1
          /\ conversations[1].unreadCount = 1
          /\ Len(messages) = 1

C2_Witness ==
    /\ RetryScenario
    /\ Len(messages) = 1
    /\ conversations[1].unreadCount = 1

SameContactKey(e, f) ==
    /\ e.customerId = f.customerId
    /\ e.channel = f.channel
    /\ e.externalId = f.externalId
    /\ e.integrationId = f.integrationId

\* C3: concurrent deliveries with distinct message ids that share one
\* (tenant, channel, external contact id) create exactly one Contact and
\* exactly one Conversation, whatever the interleaving.
C3_ConcurrentSingleContact ==
    \A p, q \in Delivered :
        /\ p # q
        /\ deliveries[p].pc = "done" /\ deliveries[q].pc = "done"
        /\ deliveries[p].ev.text # "" /\ deliveries[q].ev.text # ""
        /\ deliveries[p].ev.mid # deliveries[q].ev.mid
        /\ SameContactKey(deliveries[p].ev, deliveries[q].ev)
        => /\ Cardinality(contactMatches(deliveries[p].ev)) = 1
           /\ \A c \in contactMatches(deliveries[p].ev) :
                 Cardinality(conversationMatches(deliveries[p].ev, c)) = 1

\* the deals auto-created for contact c
DealsOf(c) == {d \in Indices(deals) : deals[d].contactId = c}

\* C15: once no handler is in flight, every Contact created by ingestion, on
\* either channel, has exactly one Deal, with amount 0 and status in progress.
C15_OneDealPerNewContact ==
    AllDone =>
        \A c \in Indices(contacts) :
            /\ Cardinality(DealsOf(c)) = 1
            /\ \A d \in DealsOf(c) : deals[d] = newDeal(c)

\* C16: a send on a paired-channel conversation calls the transport only
\* with a registered Session of status connected, and without one it is
\* answered with a failure status, never with success.
C16_SendNeedsConnectedSession ==
    \A i \in 1..Len(outbox) :
        conversations[outbox[i].conversation].channel = "whatsapp" =>
            /\ outbox[i].invoked => outbox[i].connected
            /\ ~outbox[i].connected => outbox[i].response = 502

\* C17: a send made while the channel has no connected transport still
\* records a Message row from the user with externalMessageId null.
C17_UndeliveredStillRecorded ==
    \A i \in 1..Len(outbox) :
        ~outbox[i].connected =>
            /\ outbox[i].row \in Indices(messages)
            /\ messages[outbox[i].row] = outboundMessage(outbox[i].conversation, "null")

\* no call is suspended
Quiescent == \A c \in Calls : calls[c].pc \in {"idle", "done"}

LiveFor(id) == {o \in Allocated : heap[o].integrationId = id /\ LiveSocket(o)}

\* C18: once every startSession and disconnectSession call has completed,
\* either the registry holds a Session for id and no other object holds a
\* live transport for id, or the registry holds none, no transport for id is
\* live and the durable status is disconnected.
C18_ConsistentAfterConcurrentCalls ==
    Quiescent =>
        \A id \in IntegrationIds :
            \/ /\ sessions[id] # NoSession
               /\ LiveFor(id) \subseteq {sessions[id]}
            \/ /\ sessions[id] = NoSession
               /\ LiveFor(id) = {}
               /\ integration[id].status = "disconnected"

\* an event of the batch that the loop will never hand to the handler,
\* because an error of an earlier event left the loop
Abandoned(q) ==
    /\ deliveries[q].pc = "idle"
    /\ \E p \in Deliveries : p < q /\ deliveries[p].pc = "thrown"

\* C19: a failure while ingesting one event of a batch, at any step, leaves
\* the remaining events of the batch to be ingested.
C19_FailureKeepsBatchGoing == \A q \in Deliveries : ~Abandoned(q)

\* the handler of delivery p is at its duplicate lookup and some Message
\* row, of any tenant and direction, carries the event's id
DuplicateAtLookup(p) ==
    /\ deliveries[p].pc = "dedupe"
    /\ MessagesWith(deliveries[p].ev.mid) # {}

\* C20: ingesting an event whose id is already on some Message row is a
\* no-op: the handler returns at the lookup, leaving Contact, Conversation
\* (unread counter and last activity), Message and Deal rows as they were,
\* and a handler that returned writes nothing afterwards.
C20_DuplicateIsNoOp ==
    [][\A p \in Deliveries :
         /\ DuplicateAtLookup(p) /\ deliveries'[p] # deliveries[p] =>
                /\ deliveries'[p].pc = "done"
                /\ storeVars' = storeVars
         /\ deliveries[p].pc = "done" => deliveries'[p] = deliveries[p]
      ]_vars

\* an inbound event of tenant T1 carrying the id of T2's sent message was
\* handled and the store is as it was before
C20_Witness ==
    \E p \in Deliveries :
        /\ deliveries[p].pc = "done"
        /\ deliveries[p].ev.mid = "m1"
        /\ deliveries[p].ev.text # ""
        /\ deliveries[p].ev.customerId = "T1"
        /\ messages = << outboundMessage(1, "m1") >>
        /\ Len(contacts) = 1 /\ Len(conversations) = 1 /\ deals = << >>
        /\ conversations[1].unreadCount = 0


----------------------------------------------------------------------------
(* Properties of concurrent ingestion with unique indexes *)

RECURSIVE UnreadUpTo(_)
UnreadUpTo(n) == IF n = 0 THEN 0 ELSE conversations[n].unreadCount + UnreadUpTo(n - 1)

\* the unread counters of all conversations together
TotalUnread == UnreadUpTo(Len(conversations))

----------------------------------------------------------------------------
(* Properties of the unread counter *)

\* delivery p is at its counter update for conversation cv, with its
\* message row stored on cv
IncrementDue(p, cv) ==
    /\ deliveries[p].pc = "unreadUpdate"
    /\ deliveries[p].conversation = cv
    /\ \E i \in Indices(messages) :
          /\ messages[i].externalMessageId = deliveries[p].ev.mid
          /\ messages[i].conversationId = cv
          /\ messages[i].sender = "contact"

\* the step wrote nothing but conversation rows: no session, delivery,
\* message or send changed
ReadStep ==
    /\ <<contacts, messages, deals, deliveries>>' = <<contacts, messages, deals, deliveries>>
    /\ nonIngestVars' = nonIngestVars

\* C22: the unread counter of a conversation is a non-negative integer; a
\* step changes it only by adding exactly 1, which only the ingestion of a
\* stored inbound message does, or by setting it to 0, which only the read
\* route does; sends and session events leave it alone, and a conversation
\* starts at 0.
C22_UnreadCounterWriters ==
    [][\A cv \in Indices(conversations') :
         LET after == conversations'[cv].unreadCount
         IN  /\ after \in Nat
             /\ cv \notin Indices(conversations) => after = 0
             /\ cv \in Indices(conversations) =>
                  LET before == conversations[cv].unreadCount
                  IN  \/ after = before
                      \/ /\ after = before + 1
                         /\ \E p \in Deliveries :
                               IncrementDue(p, cv) /\ deliveries'[p].pc # "unreadUpdate"
                      \/ after = 0 /\ ReadStep
      ]_vars

\* one conversation was read after an inbound message and has a sent message,
\* another one has one unread message, and a session has been closed
C22_Witness ==
    /\ \E cv \in Indices(conversations) :
          /\ conversations[cv].unreadCount = 0
          /\ \E i, j \in Indices(messages) :
                /\ messages[i].conversationId = cv /\ messages[i].sender = "contact"
                /\ messages[j].conversationId = cv /\ messages[j].sender = "user"
    /\ \E cv \in Indices(conversations) : conversations[cv].unreadCount = 1
    /\ \E o \in Objs : heap[o].status = "disconnected"


----------------------------------------------------------------------------
(* Properties of Contact and Conversation resolution *)

ConversationKey(cv) ==
    <<conversations[cv].customerId, conversations[cv].channel,
      conversations[cv].contactId, conversations[cv].integrationId>>

\* the conversation delivery p resolved
Resolved(p) == deliveries[p].pc \in {"messageCreate", "unreadUpdate"}

\* C23: after sequential ingestions there is at most one Conversation per
\* (tenant, channel, Contact, integration-or-null), and the Conversation an
\* event is appended to is the one of the event's tenant, channel, Contact
\* and integration, so the same Contact reached through another Integration
\* gets a Conversation of its own.
C23_OneConversationPerKey ==
    /\ \A i, j \in Indices(conversations) :
          ConversationKey(i) = ConversationKey(j) => i = j
    /\ \A p \in Deliveries :
          Resolved(p) =>
             ConversationKey(deliveries[p].conversation) =
                <<deliveries[p].ev.customerId, deliveries[p].ev.channel,
                  deliveries[p].contact, deliveries[p].ev.integrationId>>

\* the second message of a Contact through the same Integration was appended
\* to the Conversation of the first
C23_Witness ==
    /\ Len(conversations) = 1
    /\ \E i, j \in Indices(messages) :
          /\ i # j
          /\ messages[i].conversationId = 1
          /\ messages[j].conversationId = 1
    /\ conversations[1].integrationId = "I2"
    /\ AllDone



ContactKey(c) == <<contacts[c].customerId, contacts[c].channel, contacts[c].externalId>>

\* the contact delivery p resolved
ContactResolved(p) ==
    deliveries[p].pc \in {"conversationLookup", "conversationCreate",
                          "messageCreate", "unreadUpdate", "dealCreate"}

\* C24: after sequential ingestions no two Contacts share (tenant, channel,
\* external id); the Contact an event resolves to is the one of the event's
\* own tenant, so the same external id seen by two tenants gives two
\* Contacts; each ingested Contact has status new and the placeholder email
\* of its channel and external id.
C24_OneContactPerKey ==
    /\ \A i, j \in Indices(contacts) : ContactKey(i) = ContactKey(j) => i = j
    /\ \A p \in Deliveries :
          ContactResolved(p) =>
             ContactKey(deliveries[p].contact) =
                <<deliveries[p].ev.customerId, deliveries[p].ev.channel,
                  deliveries[p].ev.externalId>>
    /\ \A c \in Indices(contacts) :
          /\ contacts[c].status = "new"
          /\ contacts[c].email = placeholderEmail(contacts[c].channel, contacts[c].externalId)

\* the same sender wrote to two tenants on the same channel: two Contacts
C24_Witness ==
    /\ Len(contacts) = 2
    /\ contacts[1].customerId # contacts[2].customerId
    /\ contacts[1].channel = contacts[2].channel
    /\ contacts[1].externalId = contacts[2].externalId
    /\ contacts[1].email = contacts[2].email
    /\ AllDone


----------------------------------------------------------------------------
(* Properties of process start and of startSession *)

\* the startSession calls made for id, and those that have returned or thrown
StartCalls(id) == {c \in Calls : calls[c].op = "start" /\ calls[c].id = id}
FinishedCalls(id) == {c \in StartCalls(id) : calls[c].pc \in {"done", "thrown"}}

\* durable status connected and owning user present
LastSeenConnected(id) ==
    /\ integration[id].status = "connected"
    /\ integration[id].userId # "null"

\* the loop of reconnectAllSessions has visited every row it found
LoopOver ==
    /\ \E c \in Calls : calls[c].pc # "idle"
    /\ \A c \in Calls : calls[c].pc # "pending"

\* C25: reconnectAll calls startSession exactly once for every Integration
\* whose durable status is connected and whose owning user is present, and
\* for no other; a startSession that throws does not keep the loop from the
\* remaining rows, and the loop ends: its next call can always be made, and
\* when none is left every such Integration has had its one call.
C25_ReconnectAllCallsEachOnce ==
    /\ \A id \in BootIds :
          /\ Cardinality(StartCalls(id)) <= 1
          /\ ~LastSeenConnected(id) => StartCalls(id) = {}
          /\ LoopOver /\ LastSeenConnected(id) => Cardinality(FinishedCalls(id)) = 1
    /\ \A c \in Calls :
          /\ calls[c].pc = "pending"
          /\ \A d \in Calls : d < c => calls[d].pc \in {"done", "thrown"}
          => ENABLED reconnectStart(c, TRUE)

\* the first startSession of the loop threw and the second one was made
C25_Witness ==
    /\ calls[1].pc = "thrown"
    /\ calls[2].pc = "done"
    /\ calls[1].id # calls[2].id
    /\ LoopOver



\* C27: transport failures never propagate to callers of startSession: the
\* call returns normally whether or not loading the credentials or creating
\* the socket fails.
C27_StartSessionNeverThrows ==
    \A c \in Calls : calls[c].op = "start" => calls[c].pc # "thrown"



\* C29: startSession(id, tenant, user) on an id with no Session creates the
\* credential entry when it is absent and registers a Session with status
\* connecting, retry count 0, no pairing artifact and the given tenant and
\* user as owners; the durable status is not changed.
C29_StartRegistersFreshSession ==
    [][\A c \in Calls :
         /\ calls[c].pc = "pending"
         /\ calls'[c].pc # "pending"
         /\ sessions[calls[c].id] = NoSession
         => LET id == calls[c].id
            IN  /\ sessions'[id] # NoSession
                /\ sessions'[id] \notin {sessions[i] : i \in BootIds}
                /\ heap'[sessions'[id]].integrationId = id
                /\ heap'[sessions'[id]].status = "connecting"
                /\ heap'[sessions'[id]].retryCount = 0
                /\ heap'[sessions'[id]].qrCode = FALSE
                /\ heap'[sessions'[id]].customerId = calls[c].customerId
                /\ heap'[sessions'[id]].userId = calls[c].userId
                /\ authDir'[id]
                /\ integration' = integration
      ]_vars

\* a Session of tenant T2 and user U1 was registered for an Integration
\* whose credential entry is in place and whose durable status is still
\* connected
C29_Witness ==
    \E c \in Calls :
        /\ calls[c].pc = "done"
        /\ sessions[calls[c].id] = calls[c].obj
        /\ heap[calls[c].obj].customerId = "T2"
        /\ heap[calls[c].obj].userId = "U1"
        /\ heap[calls[c].obj].status = "connecting"
        /\ authDir[calls[c].id]
        /\ integration[calls[c].id].status = "connected"


----------------------------------------------------------------------------
(* Properties of process shutdown *)

\* the step is disconnectAllSessions: the registry is emptied
ShutdownStep ==
    /\ \E id \in IntegrationIds : sessions[id] # NoSession
    /\ \A id \in IntegrationIds : sessions'[id] = NoSession

\* the step is the close event of a transport that the shutdown ended
CloseAfterShutdown(o) ==
    /\ heap[o].socket = "ended"
    /\ heap'[o].socket # "ended"

\* C26: shutdownAll closes every live transport and changes no durable
\* status, whatever state the Sessions are in, neither itself nor through
\* the close events of the transports it closed: an Integration that was
\* connected before the shutdown is still connected afterwards.
C26_ShutdownKeepsDurableStatus ==
    [][/\ ShutdownStep =>
            /\ integration' = integration
            /\ \A o \in Objs : ~LiveSocket(o)'
       /\ \A o \in Objs : CloseAfterShutdown(o) => integration' = integration
      ]_vars


----------------------------------------------------------------------------
(* Properties of the read operations *)

\* the step is a read: its answer is written to calls[1]
IsRead(op) == calls'[1] # calls[1] /\ calls'[1].op = op

\* C28: getSession and getPairingArtifact change nothing; getSession
\* answers the registered Session or none; getPairingArtifact answers, for
\* an id with no Session, no artifact and status disconnected, and else the
\* Session's artifact and status.
C28_ReadsAreSideEffectFree ==
    [][/\ IsRead("getSession") \/ IsRead("getQRCode") =>
            /\ sessionVars' = sessionVars
            /\ ingestVars' = ingestVars
            /\ outVars' = outVars
       /\ IsRead("getSession") => calls'[1].obj = sessions[calls'[1].id]
       /\ IsRead("getQRCode") =>
            LET id == calls'[1].id
            IN  IF sessions[id] = NoSession
                THEN /\ calls'[1].result.qrCode = FALSE
                     /\ calls'[1].result.status = "disconnected"
                ELSE /\ calls'[1].result.qrCode = heap[sessions[id]].qrCode
                     /\ calls'[1].result.status = heap[sessions[id]].status
      ]_vars

\* the pairing artifact was read for an id without a Session whose
\* Integration is stored as connected
C28_Witness ==
    /\ calls[1].op = "getQRCode"
    /\ sessions[calls[1].id] = NoSession
    /\ integration[calls[1].id].status = "connected"
    /\ calls[1].result = [qrCode |-> FALSE, status |-> "disconnected"]


----------------------------------------------------------------------------
(* Properties of events without text *)

\* the step hands an event without text to the handler of delivery p
EmptyEventArrives(p) ==
    /\ deliveries[p].pc = "idle"
    /\ deliveries'[p].pc # "idle"
    /\ deliveries'[p].ev.text = ""

\* C30: an inbound event whose text is empty is a no-op on both channels:
\* the handler returns at once without an error, no Contact, Conversation,
\* Message or Deal is created and no unread counter changes, then or later.
C30_EmptyTextIsNoOp ==
    [][\A p \in Deliveries :
         /\ EmptyEventArrives(p) =>
               /\ deliveries'[p].pc = "done"
               /\ storeVars' = storeVars
         /\ deliveries[p].pc = "done" /\ deliveries[p].ev.text = "" =>
               deliveries'[p] = deliveries[p]
      ]_vars

\* an event without text was handled on each channel and the store is empty
C30_Witness ==
    /\ \A p \in Deliveries : deliveries[p].pc = "done" /\ deliveries[p].ev.text = ""
    /\ \E p, q \in Deliveries : deliveries[p].ev.channel # deliveries[q].ev.channel
    /\ contacts = << >> /\ conversations = << >> /\ messages = << >> /\ deals = << >>


----------------------------------------------------------------------------
(* Properties across tenants *)

\* the Message rows of tenant t: those on a Conversation of t
MessagesOf(t) ==
    {i \in Indices(messages) : conversations[messages[i].conversationId].customerId = t}

\* C31: what ingestion produces for a tenant depends on that tenant's
\* events only: an event with text that was handled has its Message among
\* the tenant's own rows, whatever rows and events other tenants have, as
\* it would in a run without the other tenants.
C31_TenantIndependence ==
    \A p \in Deliveries :
        deliveries[p].pc = "done" /\ deliveries[p].ev.text # "" =>
            \E i \in MessagesOf(deliveries[p].ev.customerId) :
                messages[i].externalMessageId = deliveries[p].ev.mid


----------------------------------------------------------------------------
(* Properties of reconnect attempts *)

\* nothing will happen to the session of object o any more: its transport
\* is not live and no reconnect attempt is scheduled
NoAttemptPending(o) == ~LiveSocket(o) /\ timers[o] = << >>

\* C32: a reconnect attempt whose transport cannot be opened counts as a
\* transient drop and is retried, so a registered Session is never left
\* short of Disconnected with no transport and no attempt pending.
C32_FailedReconnectIsRetried ==
    \A id \in IntegrationIds :
        sessions[id] # NoSession /\ heap[sessions[id]].status # "disconnected" =>
            ~NoAttemptPending(sessions[id])


----------------------------------------------------------------------------
(* Properties of failed ingestion and re-delivery *)

\* every delivery so far carried the event of delivery p
OnlyEventOf(p) == \A q \in Delivered : deliveries[q].ev = deliveries[p].ev

ContactsOf(ev) == contactMatches(ev)

ConversationsOf(ev) ==
    {cv \in Indices(conversations) : conversations[cv].contactId \in ContactsOf(ev)}

\* C33: when the Message append of an event fails after its Contact and
\* Conversation were created in the same call, those rows remain; a later
\* re-delivery of the event reuses them and appends the Message, ending
\* with one Contact, one Conversation with unread count 1 and one Message.
C33_RedeliveryAfterFailedAppend ==
    \A p, q \in Deliveries :
        /\ deliveries[p].pc = "failed" /\ OnlyEventOf(p) =>
              /\ Len(contacts) = 1
              /\ Len(conversations) = 1
              /\ Cardinality(ConversationsOf(deliveries[p].ev)) = 1
        /\ deliveries[p].pc = "failed" /\ deliveries[q].pc = "done" /\ OnlyEventOf(p) =>
              /\ Len(messages) = 1
              /\ messages[1].externalMessageId = deliveries[p].ev.mid
              /\ conversations[messages[1].conversationId].unreadCount = 1

\* the append of an event failed, the event was delivered again and stored
C33_Witness ==
    /\ deliveries[1].pc = "failed"
    /\ deliveries[2].pc = "done"
    /\ deliveries[2].ev = deliveries[1].ev
    /\ Len(contacts) = 1 /\ Len(conversations) = 1 /\ Len(messages) = 1
    /\ conversations[1].unreadCount = 1


----------------------------------------------------------------------------
(* Properties of the end of a session *)

\* the step is the close event on which the session of object o gives up:
\* logged out, or a drop with the retries used up
PermanentFailure(o) ==
    /\ heap[o].status # "disconnected"
    /\ heap'[o].status = "disconnected"

\* C34: when a Session permanently fails it is destroyed: afterwards the
\* registry holds no entry with that Session for its integration id.
C34_FailedSessionLeavesRegistry ==
    [][\A o \in Objs :
         PermanentFailure(o) => sessions'[heap[o].integrationId] # o
      ]_vars



\* C35: a Contact or Conversation create that is rejected because a
\* concurrent delivery created the row first is re-resolved and ingestion
\* continues: once all handlers have returned, the Message of every event
\* that was delivered is stored.
C35_ConflictIsReResolved ==
    (\A p \in Deliveries : Returned(p)) =>
        \A p \in Delivered : MessagesWith(deliveries[p].ev.mid) # {}



\* the step is the open event of the transport of object o
Opens(o) == heap[o].socket # "open" /\ heap'[o].socket = "open"

\* the step is a transient drop of the open transport of object o
DropsWhileOpen(o) == heap[o].socket = "open" /\ heap'[o].socket = "closed"

\* C36: whenever a Session reaches Connected its retry count is 0 and its
\* pairing artifact is null, so the retry budget is per outage: the drop
\* that follows a successful reconnect is the first of a new series and
\* schedules the first backoff delay.
C36_ConnectedResetsRetries ==
    [][\A o \in Objs :
         /\ Opens(o) =>
               /\ heap'[o].status = "connected"
               /\ heap'[o].retryCount = 0
               /\ heap'[o].qrCode = FALSE
         /\ DropsWhileOpen(o) =>
               /\ heap'[o].retryCount = 1
               /\ Len(timers'[o]) = Len(timers[o]) + 1
               /\ timers'[o][Len(timers'[o])] = reconnectDelay(1)
      ]_vars

\* the session of I1 was paired, connected, dropped once and has just
\* reconnected: the counted retry is gone and no artifact is held
C36_Witness ==
    /\ scenario = 6
    /\ sessions["I1"] # NoSession
    /\ heap[sessions["I1"]].socket = "open"
    /\ heap[sessions["I1"]].status = "connected"
    /\ heap[sessions["I1"]].retryCount = 0
    /\ heap[sessions["I1"]].qrCode = FALSE


\* C37: receiving a pairing artifact changes only the session's in-memory
\* artifact and status: the integration rows, the retry count, the pending
\* reconnects, the credential store and the registry are unchanged.
C37_PairingArtifactIsEphemeral ==
    [][\A o \in Objs :
         (heap[o].socket = "connecting" /\ \E ok \in BOOLEAN : qrUpdate(o, ok)) =>
             /\ integration' = integration
             /\ heap'[o].retryCount = heap[o].retryCount
             /\ heap'[o].socket = heap[o].socket
             /\ heap'[o].integrationId = heap[o].integrationId
             /\ \A q \in Objs \ {o} : heap'[q] = heap[q]
             /\ <<sessions, timers, authDir>>' = <<sessions, timers, authDir>>
      ]_vars

\* an artifact is held by a session that reconnects after a counted drop
\* while its integration row still reads connected with its address
C37_Witness ==
    \E o \in Allocated :
        /\ Allocated = {o}
        /\ heap[o].socket = "connecting"
        /\ heap[o].qrCode = TRUE
        /\ heap[o].status = "connecting"
        /\ heap[o].retryCount = 1
        /\ integration[heap[o].integrationId].status = "connected"
        /\ integration[heap[o].integrationId].whatsappPhoneNumber \in Phones



\* C38: after disconnectSession(id), and until startSession(id) runs again,
\* no event of the torn-down session's transport changes state for id: the
\* row stays disconnected without address, the credential entry stays absent
\* and the registry stays without a session for id.
C38_TornDownStaysQuiet ==
    \A id \in torn :
        /\ integration[id] = [status |-> "disconnected", whatsappPhoneNumber |-> "null"]
        /\ ~authDir[id]
        /\ sessions[id] = NoSession



\* the step invokes the transport's send of the session registered for id
SendInvoked(id) ==
    /\ Len(outbox') = Len(outbox) + 1
    /\ outbox'[Len(outbox')].invoked
    /\ conversations[outbox'[Len(outbox')].conversation].channel = "whatsapp"
    /\ conversations[outbox'[Len(outbox')].conversation].integrationId = id

\* the registered session of id reads connected
ReadsConnected(id) ==
    sessions[id] # NoSession /\ heap[sessions[id]].status = "connected"

\* C39: whenever a session's status is connected its transport is open, so
\* sendWhatsAppMessage never invokes the transport's send on a socket that
\* has been closed or dropped.
C39_ConnectedMeansOpen ==
    [][\A id \in IntegrationIds :
         /\ ReadsConnected(id)' => heap'[sessions'[id]].socket = "open"
         /\ SendInvoked(id) => heap[sessions[id]].socket = "open"
      ]_vars



\* the contact has a stored message on one of its conversations
HasStoredMessage(c) ==
    \E m \in Indices(messages) : conversations[messages[m].conversationId].contactId = c

\* C40: every Contact created by ingestion on the paired channel has exactly
\* one auto-created Deal once its first message is stored and the handlers
\* have returned, also when the call that created it failed before the Deal
\* step and the event was delivered again.
C40_OneDealPerIngestedContact ==
    (\A p \in Deliveries : Returned(p)) =>
        \A c \in Indices(contacts) :
            contacts[c].channel = "whatsapp" /\ HasStoredMessage(c) =>
                Cardinality(DealsOf(c)) = 1

====
